---- MODULE Spec2Model ----
(***************************************************************************)
(* Job orchestration of the Instagram Reels transcript extractor           *)
(* (backend/main.py): the in-memory job registry, the HTTP handlers, the   *)
(* background pipeline process_urls with its two stages, the per-job       *)
(* workspace on disk and the result packager.                              *)
(*                                                                         *)
(* Scheduling.  All handlers and process_urls are coroutines of one        *)
(* asyncio event loop.  Code between two `await` expressions runs without  *)
(* interruption; the variable `loop` names the task that holds the loop.   *)
(* The two `await` expressions of process_urls (lines 177 and 183) are the *)
(* only places where the loop may run request handlers or other tasks, and *)
(* the model lets it do so there; a task that is resumed at once (the      *)
(* awaited coroutines hold no await of their own) is one of the schedules. *)
(* A request handler holds no await and is one step.  A handler's answer   *)
(* is an operator of the state it runs in (status_response, ...).          *)
(* A stage function is two steps: it is entered (import, os.chdir into the *)
(* workspace), and its body runs together with the `finally` that restores *)
(* the working directory and the checkpoint process_urls sets next.        *)
(*                                                                         *)
(* Encodings.  progress is kept in tenths (0.3 is 3, 1.0 is 10).  A        *)
(* timestamp is kept as the reading of the clock it comes from.  A         *)
(* path inside a workspace is a sequence of strings, a file name being     *)
(* split into stem and extension: subs/A.txt is <<"subs","A","txt">>.      *)
(* A directory that relative paths may resolve against is named by the     *)
(* job id of the workspace, or is ServerDir, the directory the server was  *)
(* started in.                                                             *)
(***************************************************************************)
EXTENDS Integers, Sequences, FiniteSets, TLC

\* ------------------------------------------------------------------ bounds
MaxJobs == 2

\* ------------------------------------------------------------------ inputs
\* A URL is its "/"-separated segments; a trailing "/" is a trailing "".
UrlA == <<"reel", "A">>
UrlB == <<"reel", "B", "">>

\* The strings a client may put in `urls`, each given by the tokens
\* str.split() finds in it.
UrlPool == << <<UrlA>>, <<UrlB>> >>

\* The `urls` lists a client submits: the empty list and the whole pool.
Submissions == { <<>>, UrlPool }

JobIds == 1..MaxJobs

\* Python's None, for completed_at and workspace.
None == 0

\* The working directory of the server process when it starts.
ServerDir == MaxJobs + 1

\* The directories of the model: the workspaces and the server's own.
Dirs == JobIds \cup {ServerDir}

VARIABLES
    jobs,      \* the registry: job id -> job record (the dict `jobs`)
    issued,    \* the ids uuid4 has returned so far
    task,      \* per id: the background task process_urls(job_id, urls)
    loop,      \* the tasks holding the event loop: none, or one
    disk,      \* per workspace: the paths that exist under it
    reels,     \* per workspace: the lines of reels.txt
    zip,       \* per workspace: the entries of transcripts.zip
    cwd,       \* the working directory of the process (os.getcwd())
    modules    \* sys.modules: the stage modules imported so far

vars == <<jobs, issued, task, loop, disk, reels, zip, cwd, modules>>

\* No task holds the loop: request handlers and parked tasks may run.
Idle == {}

\* A task: where process_urls stands, its arguments and locals, and the
\* exception it has caught (if any).
NoTask == [pc |-> "none", urls |-> <<>>, workspace |-> None, exc |-> "",
           original_cwd |-> None]

\* A message: its text, the count or the error text formatted into it.
Msg(text) == [text |-> text, n |-> 0, err |-> ""]

\* An HTTP response: the status code and the fields of the body.
Response(code) == [code |-> code, job_id |-> 0, state |-> "", progress |-> 0,
                   completed_at |-> None, archive |-> {}]

HasJob(j) == j \in DOMAIN jobs

\* Variant of DictSet that starts the registry over with the new record.
DictSet_Replace(d, j, rec) == [k \in {j} |-> rec]

\* dict assignment jobs[j] = rec and `del jobs[j]`
DictSet(d, j, rec) == [k \in DOMAIN d \cup {j} |-> IF k = j THEN rec ELSE d[k]]
DictDel(d, j) == [k \in DOMAIN d \ {j} |-> d[k]]

Init ==
    /\ jobs = <<>>
    /\ issued = {}
    /\ task = [j \in JobIds |-> NoTask]
    /\ loop = Idle
    /\ disk = [d \in Dirs |-> IF d = ServerDir THEN {<<>>} ELSE {}]
    /\ reels = [j \in JobIds |-> <<>>]
    /\ zip = [j \in JobIds |-> {}]
    /\ cwd = ServerDir
    /\ modules = {}

\* ------------------------------------------------------------- file system
SubsDir == <<"subs">>
TmpDir == <<"tmp">>
ReelsTxt == <<"reels", "txt">>
ZipPath == <<"transcripts", "zip">>

\* os.path.exists(f"{workspace}/{p}"): the workspace root is the empty path.
PathExists(w, p) == w # None /\ p \in disk[w]

IsDir(p) == p \in {<<>>, SubsDir, TmpDir}

is_file(p) == ~IsDir(p)

\* Path.rglob('*'): every path strictly below source_path.
rglob(files, source_path) ==
    { p \in files : /\ Len(p) > Len(source_path)
                    /\ SubSeq(p, 1, Len(source_path)) = source_path }

relative_to(p, source_path) == SubSeq(p, Len(source_path) + 1, Len(p))

\* Variant of create_zip_file that walks the directory holding the archive.
create_zip_file_FromRoot(files, source_dir, zip_path) ==
    LET opened == files \cup {zip_path} IN
    { relative_to(file_path, <<>>) :
        file_path \in { p \in rglob(opened, <<>>) : is_file(p) } }

\* The entries create_zip_file writes; ZipFile(zip_path, 'w') has created
\* the archive file before the directory is walked.
create_zip_file(files, source_dir, zip_path) ==
    LET opened == files \cup {zip_path} IN
    { relative_to(file_path, source_dir) :
        file_path \in { p \in rglob(opened, source_dir) : is_file(p) } }

\* Variant of rmtree that removes the archive alone.
rmtree_ArchiveOnly(w) ==
    /\ disk' = [disk EXCEPT ![w] = @ \ {ZipPath}]
    /\ zip' = [zip EXCEPT ![w] = {}]
    /\ UNCHANGED reels

\* shutil.rmtree(workspace)
rmtree(w) ==
    /\ disk' = [disk EXCEPT ![w] = {}]
    /\ reels' = [reels EXCEPT ![w] = <<>>]
    /\ zip' = [zip EXCEPT ![w] = {}]

\* ------------------------------------------------------------- POST /submit
\* Variant of uuid4 that numbers the jobs by the size of the registry.
uuid4_FromSize == Cardinality(DOMAIN jobs) + 1

\* uuid.uuid4(): a value it has not returned before, named by its draw order.
uuid4 == Cardinality(issued) + 1

\* Variant of submit_response without the validation.
submit_response_NoCheck(urls) == [Response(200) EXCEPT !.job_id = uuid4]

\* datetime.now().isoformat(): the k-th reading of the clock made for job j.
\* Readings are told apart; how far apart in time they lie is not kept.
datetime_now(j, k) == 2 * (j - 1) + k

\* What submit_urls answers.
submit_response(urls) ==
    IF urls = <<>> THEN Response(400)
    ELSE [Response(200) EXCEPT !.job_id = uuid4]

submit_urls(urls) ==
    /\ loop = Idle
    /\ IF submit_response(urls).code = 400
       THEN UNCHANGED vars
       ELSE /\ uuid4 \in JobIds
            /\ LET job_id == uuid4 IN
               /\ jobs' = DictSet(jobs, job_id,
                            [state |-> "pending", progress |-> 0,
                             message |-> Msg("Job created"), urls |-> urls,
                             created_at |-> datetime_now(job_id, 1),
                             completed_at |-> None,
                             workspace |-> None])
               /\ issued' = issued \cup {job_id}
               \* background_tasks.add_task(process_urls, job_id, urls)
               /\ task' = [task EXCEPT ![job_id] =
                            [NoTask EXCEPT !.pc = "scheduled", !.urls = urls]]
            /\ UNCHANGED <<loop, disk, reels, zip, cwd, modules>>

\* ------------------------------------------------------- GET /status/{id}
\* What get_job_status answers.
status_response(job_id) ==
    IF ~HasJob(job_id) THEN Response(404)
    ELSE LET job == jobs[job_id] IN
         [Response(200) EXCEPT !.job_id = job_id, !.state = job.state,
                               !.progress = job.progress,
                               !.completed_at = job.completed_at]

get_job_status(job_id) ==
    /\ loop = Idle
    /\ status_response(job_id).code \in {200, 404}
    /\ UNCHANGED vars

\* ------------------------------------------------------- GET /result/{id}
\* Variant of result_response that refuses pending jobs only.
result_response_OnlyPending(job_id) ==
    IF ~HasJob(job_id) THEN Response(404)
    ELSE LET job == jobs[job_id]
             workspace == job.workspace IN
         IF job.state = "pending" THEN Response(400)
         ELSE IF workspace = None \/ ~PathExists(workspace, <<>>) THEN Response(404)
         ELSE [Response(200) EXCEPT !.job_id = job_id,
                  !.archive = create_zip_file(disk[workspace], SubsDir, ZipPath)]

\* What download_result answers; a 200 carries the entries of the archive
\* it has written.
result_response(job_id) ==
    IF ~HasJob(job_id) THEN Response(404)
    ELSE LET job == jobs[job_id]
             workspace == job.workspace IN
         IF job.state # "completed" THEN Response(400)
         ELSE IF workspace = None \/ ~PathExists(workspace, <<>>) THEN Response(404)
         ELSE [Response(200) EXCEPT !.job_id = job_id,
                  !.archive = create_zip_file(disk[workspace], SubsDir, ZipPath)]

download_result(job_id) ==
    /\ loop = Idle
    /\ LET r == result_response(job_id) IN
       IF r.code = 200
       THEN LET workspace == jobs[job_id].workspace IN
            /\ disk' = [disk EXCEPT ![workspace] = @ \cup {ZipPath}]
            /\ zip' = [zip EXCEPT ![workspace] = r.archive]
       ELSE UNCHANGED <<disk, zip>>
    /\ UNCHANGED <<jobs, issued, task, loop, reels, cwd, modules>>

\* ----------------------------------------------------------------- GET /jobs
list_jobs ==
    /\ loop = Idle
    /\ UNCHANGED vars

\* ------------------------------------------------------- DELETE /jobs/{id}
\* What delete_job answers.
delete_response(job_id) == IF ~HasJob(job_id) THEN Response(404) ELSE Response(200)

delete_job(job_id) ==
    /\ loop = Idle
    /\ IF delete_response(job_id).code = 404
       THEN UNCHANGED <<jobs, disk, reels, zip>>
       ELSE LET workspace == jobs[job_id].workspace IN
            /\ IF workspace # None /\ PathExists(workspace, <<>>)
               THEN rmtree(workspace)
               ELSE UNCHANGED <<disk, reels, zip>>
            /\ jobs' = DictDel(jobs, job_id)
    /\ UNCHANGED <<issued, task, loop, cwd, modules>>

\* ------------------------------------------------- process_urls (background)
\* jobs[job_id][k] = v for several keys at once; KeyError when the id is gone.
Update(j, rec) == [jobs EXCEPT ![j] = rec]

Raise(j, e) == task' = [task EXCEPT ![j].pc = "except", ![j].exc = e]

Goto(j, pc) == task' = [task EXCEPT ![j].pc = pc]

\* Variant of Running that forgets the state.
Running_KeepsState(job) ==
    [job EXCEPT !.message = Msg("Setting up workspace..."), !.progress = 1]

\* Lines 153-155.
Running(job) ==
    [job EXCEPT !.state = "running", !.message = Msg("Setting up workspace..."),
                !.progress = 1]

\* Variant of Extracting that reports the checkpoint of the next stage.
Extracting_Ahead(job, workspace) ==
    [job EXCEPT !.workspace = workspace,
                !.message = Msg("Extracting existing captions..."), !.progress = 6]

\* Lines 159, 173-174.
Extracting(job, workspace) ==
    [job EXCEPT !.workspace = workspace,
                !.message = Msg("Extracting existing captions..."), !.progress = 3]

\* Variant of Processing that reports a checkpoint below the previous one.
Processing_Low(job) ==
    [job EXCEPT !.message = Msg("Processing with Whisper..."), !.progress = 2]

\* Lines 179-180.
Processing(job) ==
    [job EXCEPT !.message = Msg("Processing with Whisper..."), !.progress = 6]

\* Lines 185-186.
Finalizing(job) ==
    [job EXCEPT !.message = Msg("Finalizing results..."), !.progress = 9]

\* Variant of NoTranscripts that forgets the state.
NoTranscripts_KeepsRunning(job) ==
    [job EXCEPT !.message = Msg("No transcripts were generated")]

\* Lines 193-194.
NoTranscripts(job) ==
    [job EXCEPT !.state = "failed", !.message = Msg("No transcripts were generated")]

\* Variant of Completed that stops after the first assignment (line 198).
Completed_FirstAssignment(job, n, t) == [job EXCEPT !.state = "completed"]

\* Lines 198-201.
Completed(job, n, t) ==
    [job EXCEPT !.state = "completed", !.progress = 10,
                !.message = [Msg("Successfully processed") EXCEPT !.n = n],
                !.completed_at = t]

\* Variant of Failed that leaves the progress where it was.
Failed_KeepsProgress(job, e) ==
    [job EXCEPT !.state = "failed", !.message = [Msg("Error") EXCEPT !.err = e]]

\* Lines 204-206.
Failed(job, e) ==
    [job EXCEPT !.state = "failed", !.message = [Msg("Error") EXCEPT !.err = e],
                !.progress = 0]

\* The task is started by the loop: lines 153-155.
Dispatch(j) ==
    /\ loop = Idle
    /\ task[j].pc = "scheduled"
    /\ loop' = {j}
    /\ IF HasJob(j)
       THEN /\ jobs' = Update(j, Running(jobs[j]))
            /\ Goto(j, "setup")
       ELSE /\ Raise(j, "KeyError")
            /\ UNCHANGED jobs
    /\ UNCHANGED <<issued, disk, reels, zip, cwd, modules>>

\* What the operating system may answer while the workspace is built.
SetupOutcomes == {"ok", "mkdtemp", "makedirs", "open", "write"}

\* tempfile.mkdtemp(prefix=f"job_{job_id}_"): a fresh directory, named here
\* by the id in its prefix.
mkdtemp(job_id) == job_id

RECURSIVE Flatten(_)
\* The lines written to reels.txt: every token of every submitted string.
Flatten(urls) ==
    IF urls = <<>> THEN <<>> ELSE Head(urls) \o Flatten(Tail(urls))

\* Lines 158-174.
Setup(j) ==
    /\ loop = {j}
    /\ task[j].pc = "setup"
    /\ \E outcome \in SetupOutcomes :
        IF outcome = "mkdtemp"
        THEN /\ Raise(j, "OSError")
             /\ UNCHANGED <<jobs, loop, disk, reels>>
        ELSE LET workspace == mkdtemp(j) IN
             IF ~HasJob(j)
             THEN /\ disk' = [disk EXCEPT ![workspace] = {<<>>}]
                  /\ task' = [task EXCEPT ![j].pc = "except", ![j].exc = "KeyError",
                                          ![j].workspace = workspace]
                  /\ UNCHANGED <<jobs, loop, reels>>
             ELSE IF outcome = "ok"
             THEN /\ disk' = [disk EXCEPT ![workspace] =
                                {<<>>, SubsDir, TmpDir, ReelsTxt}]
                  /\ reels' = [reels EXCEPT ![workspace] = Flatten(task[j].urls)]
                  /\ jobs' = Update(j, Extracting(jobs[j], workspace))
                  /\ task' = [task EXCEPT ![j].pc = "await_scrape",
                                          ![j].workspace = workspace]
                  /\ loop' = Idle
             ELSE /\ disk' = [disk EXCEPT ![workspace] =
                                IF outcome = "makedirs" THEN {<<>>}
                                ELSE IF outcome = "open"
                                THEN {<<>>, SubsDir, TmpDir}
                                ELSE {<<>>, SubsDir, TmpDir, ReelsTxt}]
                  /\ jobs' = Update(j, [jobs[j] EXCEPT !.workspace = workspace])
                  /\ task' = [task EXCEPT ![j].pc = "except", ![j].exc = "OSError",
                                          ![j].workspace = workspace]
                  /\ UNCHANGED <<loop, reels>>
    /\ UNCHANGED <<issued, zip, cwd, modules>>

\* ---------------------------------------------------------------- the stages
\* u.rstrip("/").split("/")[-1]
RECURSIVE rstrip(_)
rstrip(url) ==
    IF url # <<>> /\ url[Len(url)] = ""
    THEN rstrip(SubSeq(url, 1, Len(url) - 1))
    ELSE url

Short(url) == LET u == rstrip(url) IN IF u = <<>> THEN "" ELSE u[Len(u)]

\* `from scrape_subs import run_batch`, `from fill_gaps import main`: the
\* first import of a module runs its top level, which creates the module's
\* directory (SUB_DIR.mkdir, TMP_DIR.mkdir, exist_ok=True) under the
\* working directory of that moment.
TopLevelDir(module) == IF module = "scrape_subs" THEN SubsDir ELSE TmpDir

import(files, module) ==
    IF module \in modules THEN files
    ELSE [files EXCEPT ![cwd] = @ \cup {TopLevelDir(module)}]

\* What yt-dlp may do with one URL of the batch: write the captions it
\* found, find none, or fail (YoutubeDL.download raises DownloadError, the
\* options not setting ignoreerrors).
ScrapeOutcomes == {"captions", "nocaptions", "error"}

\* The subtitle file of outtmpl "subs/%(id)s.%(ext)s".
SrtPath(url) == <<"subs", Short(url), "srt">>

TxtPath(short) == <<"subs", short, "txt">>

RECURSIVE download(_, _, _, _)
\* ydl.download(urls): the URLs in order, stopping at the first that raises.
download(files, urls, out, i) ==
    IF i > Len(urls) THEN [files |-> files, exc |-> ""]
    ELSE IF out[i] = "error" THEN [files |-> files, exc |-> "DownloadError"]
    ELSE download(IF out[i] = "captions" THEN files \cup {SrtPath(urls[i])}
                  ELSE files,
                  urls, out, i + 1)

\* run_batch(url_file): the files of the working directory afterwards.
run_batch(files, lines, out) == download(files, lines, out, 1)

\* What one URL may meet in ensure_transcript: the audio download fails
\* and leaves nothing, fails and leaves the partial file yt-dlp was writing,
\* the transcription raises, or the transcript is written.
FillOutcomes == {"dlfail", "dlpartial", "asrfail", "ok"}

\* TMP_DIR / f"{short}.m4a", and the file yt-dlp writes until it is done.
AudioPath(short) == <<"tmp", short, "m4a">>
PartPath(short) == <<"tmp", short, "m4a.part">>

\* The files of the working directory after ensure_transcript(url).
ensure_transcript(files, url, outcome) ==
    LET short == Short(url)
        txt_path == TxtPath(short)
        audio == AudioPath(short) IN
    IF txt_path \in files THEN files                          \* lines 23-25
    ELSE IF audio \notin files /\ outcome = "dlfail" THEN files
    ELSE IF audio \notin files /\ outcome = "dlpartial"       \* lines 37-39
    THEN files \cup {PartPath(short)}
    ELSE LET downloaded == files \cup {audio} IN
         IF outcome = "ok"
         THEN (downloaded \cup {txt_path}) \ {audio}          \* lines 54, 78
         ELSE downloaded \ {audio}                            \* lines 74-78

RECURSIVE fill_gaps_main(_, _, _, _)
\* main() of fill_gaps.py: ensure_transcript for every line of reels.txt.
fill_gaps_main(files, urls, out, i) ==
    IF i > Len(urls) THEN files
    ELSE fill_gaps_main(ensure_transcript(files, urls[i], out[i]), urls, out, i + 1)

\* A stage function up to its `try`: the import, os.getcwd() and
\* os.chdir(workspace), which raises when the workspace is gone.
EnterStage(j, module, pc) ==
    /\ loop' = {j}
    /\ disk' = import(disk, module)
    /\ modules' = modules \cup {module}
    /\ LET workspace == task[j].workspace IN
       IF ~PathExists(workspace, <<>>)
       THEN /\ Raise(j, "FileNotFoundError")
            /\ UNCHANGED cwd
       ELSE /\ task' = [task EXCEPT ![j].pc = pc, ![j].original_cwd = cwd]
            /\ cwd' = workspace
    /\ UNCHANGED <<jobs, issued, reels, zip>>

\* Variant of chdir_back that leaves the working directory where it is.
chdir_back_Stays(j) == UNCHANGED cwd

\* finally: os.chdir(original_cwd)
chdir_back(j) == cwd' = task[j].original_cwd

\* The stage function is left (its locals are gone) and process_urls goes
\* on at pc, or in its handler when e is an exception.
LeaveStage(j, pc, e) ==
    task' = [task EXCEPT ![j].pc = IF e = "" THEN pc ELSE "except",
                         ![j].exc = e, ![j].original_cwd = None]

\* await run_scrape_subs(workspace): lines 177, 208-218.
EnterScrape(j) ==
    /\ loop = Idle
    /\ task[j].pc = "await_scrape"
    /\ EnterStage(j, "scrape_subs", "run_batch")

\* Lines 179-180, up to the await of line 183.
AfterScrape(j) ==
    IF HasJob(j)
    THEN /\ jobs' = Update(j, Processing(jobs[j]))
         /\ LeaveStage(j, "await_fill", "")
         /\ loop' = Idle
    ELSE /\ LeaveStage(j, "await_fill", "KeyError")
         /\ UNCHANGED <<jobs, loop>>

\* run_batch("reels.txt") and the `finally` after it (lines 220-223,
\* scrape_subs.py lines 24-29), then process_urls up to its next await.
\* The relative paths of run_batch resolve against the working directory.
RunBatch(j) ==
    /\ loop = {j}
    /\ task[j].pc = "run_batch"
    /\ \E out \in [1..Len(reels[cwd]) -> ScrapeOutcomes] :
         LET r == run_batch(disk[cwd], reels[cwd], out) IN
         /\ disk' = [disk EXCEPT ![cwd] = r.files]
         /\ IF r.exc = "" THEN AfterScrape(j)
            ELSE /\ LeaveStage(j, "await_fill", r.exc)
                 /\ UNCHANGED <<jobs, loop>>
    /\ chdir_back(j)
    /\ UNCHANGED <<issued, reels, zip, modules>>

\* await run_fill_gaps(workspace): lines 183, 225-234.
EnterFillGaps(j) ==
    /\ loop = Idle
    /\ task[j].pc = "await_fill"
    /\ EnterStage(j, "fill_gaps", "fill_gaps_main")

\* Lines 185-186.
AfterFillGaps(j) ==
    IF HasJob(j)
    THEN /\ jobs' = Update(j, Finalizing(jobs[j]))
         /\ LeaveStage(j, "resolve", "")
    ELSE /\ LeaveStage(j, "resolve", "KeyError")
         /\ UNCHANGED jobs

\* fill_gaps_main() and the `finally` after it (lines 236-239, fill_gaps.py
\* lines 80-89), then process_urls up to the terminal resolution.
RunFillGaps(j) ==
    /\ loop = {j}
    /\ task[j].pc = "fill_gaps_main"
    /\ \E out \in [1..Len(reels[cwd]) -> FillOutcomes] :
         disk' = [disk EXCEPT ![cwd] = fill_gaps_main(@, reels[cwd], out, 1)]
    /\ AfterFillGaps(j)
    /\ chdir_back(j)
    /\ UNCHANGED <<issued, loop, reels, zip, modules>>

\* Variant of txt_files that globs "*".
txt_files_AnyFile(files) == { p \in files : Len(p) = 3 /\ p[1] = "subs" }

\* subs_dir.glob("*.txt")
txt_files(files) == { p \in files : Len(p) = 3 /\ p[1] = "subs" /\ p[3] = "txt" }

\* Variant of End that schedules the finished task again.
End_Retry(j, pc) == task' = [task EXCEPT ![j].pc = "scheduled", ![j].exc = ""]

\* The task ends: its locals are gone.
End(j, pc) == task' = [task EXCEPT ![j] = [NoTask EXCEPT !.pc = pc, !.exc = task[j].exc]]

\* Lines 188-201: the terminal resolution; the task returns.
Resolve(j) ==
    /\ loop = {j}
    /\ task[j].pc = "resolve"
    /\ LET found == txt_files(disk[task[j].workspace]) IN
       IF found = {}
       THEN jobs' = Update(j, NoTranscripts(jobs[j]))
       ELSE jobs' = Update(j, Completed(jobs[j], Cardinality(found),
                                        datetime_now(j, 2)))
    /\ End(j, "returned")
    /\ loop' = Idle
    /\ UNCHANGED <<issued, disk, reels, zip, cwd, modules>>

\* Variant of Except that writes the failure under the id whether or not
\* the registry still holds it.
Except_Setdefault(j) ==
    /\ loop = {j}
    /\ task[j].pc = "except"
    /\ jobs' = DictSet(jobs, j,
                 Failed(IF HasJob(j) THEN jobs[j]
                        ELSE [state |-> "pending", progress |-> 0,
                              message |-> Msg("Job created"), urls |-> task[j].urls,
                              created_at |-> datetime_now(j, 1),
                              completed_at |-> None, workspace |-> None],
                        task[j].exc))
    /\ End(j, "returned")
    /\ loop' = Idle
    /\ UNCHANGED <<issued, disk, reels, zip, cwd, modules>>

\* Lines 203-206: the handler of `except Exception`; a KeyError raised in it
\* leaves process_urls.
Except(j) ==
    /\ loop = {j}
    /\ task[j].pc = "except"
    /\ IF HasJob(j)
       THEN /\ jobs' = Update(j, Failed(jobs[j], task[j].exc))
            /\ End(j, "returned")
       ELSE /\ End(j, "raised")
            /\ UNCHANGED jobs
    /\ loop' = Idle
    /\ UNCHANGED <<issued, disk, reels, zip, cwd, modules>>

process_urls(j) ==
    \/ Dispatch(j)
    \/ Setup(j)
    \/ EnterScrape(j)
    \/ RunBatch(j)
    \/ EnterFillGaps(j)
    \/ RunFillGaps(j)
    \/ Resolve(j)
    \/ Except(j)

Submit == \E urls \in Submissions : submit_urls(urls)
Status == \E job_id \in JobIds : get_job_status(job_id)
Result == \E job_id \in JobIds : download_result(job_id)
List == list_jobs
Delete == \E job_id \in JobIds : delete_job(job_id)
Pipeline == \E j \in JobIds : process_urls(j)

Next == Submit \/ Status \/ Result \/ List \/ Delete \/ Pipeline

Spec == Init /\ [][Next]_vars

\* The event loop runs every task that is ready, and every external call
\* of a stage returns or raises: no task waits forever at a step it can take.
FairSpec == Spec /\ \A j \in JobIds : WF_vars(process_urls(j))

\* ------------------------------------------------------------------ claims
NonTerminal == {"pending", "running"}
Terminal == {"completed", "failed"}

\* The edges of the job state machine.
Edges == {<<"pending", "running">>, <<"running", "completed">>,
          <<"running", "failed">>}

\* C1: a job enters the registry in state pending, and every step that
\* changes its state follows pending -> running -> completed or failed;
\* pending never goes to a terminal state directly and nothing leaves a
\* terminal state.
C1_StateMachine ==
    [][\A j \in JobIds :
         /\ (~HasJob(j) /\ HasJob(j)') => jobs'[j].state = "pending"
         /\ (HasJob(j) /\ HasJob(j)' /\ jobs'[j].state # jobs[j].state)
               => <<jobs[j].state, jobs'[j].state>> \in Edges]_vars

\* One job has completed and been packaged, another has failed.
C1_Witness ==
    \E j, k \in DOMAIN jobs :
        /\ jobs[j].state = "completed" /\ PathExists(jobs[j].workspace, ZipPath)
        /\ jobs[k].state = "failed"

\* C2: what a status poll returns for a job never shows a smaller progress
\* than the poll before it did, as long as the state it shows is pending or
\* running.
C2_ProgressMonotone ==
    [][\A j \in JobIds :
         LET before == status_response(j)
             after == status_response(j)' IN
         (before.code = 200 /\ after.code = 200 /\ after.state \in NonTerminal)
            => after.progress >= before.progress]_vars

\* A poll can be served for a running job that has passed the scrape stage.
C2_Witness ==
    \E j \in JobIds :
        /\ loop = Idle
        /\ status_response(j).code = 200
        /\ status_response(j).state = "running"
        /\ status_response(j).progress = 6

\* C3: once a status poll shows a terminal state, every later poll of
\* the still-registered job shows the same state, progress and completed_at.
C3_TerminalFrozen ==
    [][\A j \in JobIds :
         LET before == status_response(j)
             after == status_response(j)' IN
         (before.code = 200 /\ before.state \in Terminal /\ after.code = 200)
            => /\ after.state = before.state
               /\ after.progress = before.progress
               /\ after.completed_at = before.completed_at]_vars

\* A completed job can be polled after its result has been packaged and
\* after another job has completed.
C3_Witness ==
    \E j, k \in DOMAIN jobs :
        /\ loop = Idle
        /\ status_response(j).state = "completed"
        /\ PathExists(jobs[j].workspace, ZipPath)
        /\ k # j
        /\ status_response(k).state = "completed"
        /\ status_response(k).completed_at # status_response(j).completed_at

\* The task of job j has returned from the terminal resolution: both stages
\* returned without raising.
Resolved(j) == task[j].pc = "returned" /\ task[j].exc = ""

\* The transcripts in the output area of workspace w: subs/<name>.txt.
Transcripts(w) == { p \in disk[w] : Len(p) = 3 /\ p[1] = "subs" /\ p[3] = "txt" }

\* C4: a registered job whose stages both returned and whose output area
\* holds no transcript is failed with "No transcripts were generated", and a
\* completed job always has a transcript.
C4_NoTranscriptsFails ==
    \A j \in DOMAIN jobs :
        LET found == Transcripts(mkdtemp(j)) IN
        /\ (Resolved(j) /\ found = {})
              => /\ jobs[j].state = "failed"
                 /\ jobs[j].message = Msg("No transcripts were generated")
        /\ jobs[j].state = "completed" => found # {}

\* Both stages returned, the scrape stage wrote captions, no transcript
\* exists and the job is failed.
C4_Witness ==
    \E j \in DOMAIN jobs :
        /\ Resolved(j)
        /\ jobs[j].state = "failed"
        /\ SrtPath(UrlA) \in disk[mkdtemp(j)]
        /\ Transcripts(mkdtemp(j)) = {}

\* C5: for a registered job that is pending, running or failed, GET /result
\* answers 400 with no archive, and no archive exists in its workspace.
C5_ResultNeedsCompleted ==
    \A j \in DOMAIN jobs :
        jobs[j].state # "completed"
           => /\ result_response(j).code = 400
              /\ result_response(j).archive = {}
              /\ ~PathExists(mkdtemp(j), ZipPath)
              /\ zip[mkdtemp(j)] = {}

\* A failed job whose workspace holds output files, and a running one, can
\* be asked for their result.
C5_Witness ==
    \E j, k \in DOMAIN jobs :
        /\ loop = Idle
        /\ jobs[j].state = "failed"
        /\ rglob(disk[mkdtemp(j)], SubsDir) # {}
        /\ jobs[k].state = "running"
        /\ result_response(j).code = 400
        /\ result_response(k).code = 400

\* C6: a DELETE that finds the job leaves the registry without the id and
\* the disk without the job's workspace, and a status lookup then answers
\* 404, whatever the state of the job and of its pipeline.
C6_DeleteRemoves ==
    [][\A j \in JobIds :
         (delete_response(j).code = 200 /\ delete_job(j))
            => /\ ~HasJob(j)'
               /\ disk'[mkdtemp(j)] = {}
               /\ status_response(j)'.code = 404]_vars

\* A job was deleted while its pipeline was waiting between the stages.
C6_Witness ==
    \E j \in issued :
        /\ ~HasJob(j)
        /\ task[j].pc = "await_fill"
        /\ disk[mkdtemp(j)] = {}
        /\ status_response(j).code = 404

\* C7: a submit with an empty list answers 400 and changes neither the
\* registry nor the tasks (nor anything else).
C7_EmptySubmitRejected ==
    [][submit_urls(<<>>)
          => /\ submit_response(<<>>).code = 400
             /\ UNCHANGED <<jobs, task, issued>>]_vars

\* An empty list can be submitted to a server that holds a job and can
\* still take one.
C7_Witness ==
    /\ loop = Idle
    /\ Cardinality(DOMAIN jobs) = 1
    /\ uuid4 \in JobIds
    /\ submit_response(<<>>).code = 400

\* C8: the id a successful submit returns was never returned before, and a
\* status lookup right after it finds the job, in state pending.
C8_FreshId ==
    [][\A urls \in Submissions, job_id \in JobIds :
         (/\ submit_response(urls).code = 200
          /\ submit_response(urls).job_id = job_id
          /\ submit_urls(urls))
            => /\ job_id \notin issued
               /\ status_response(job_id)'.code = 200
               /\ status_response(job_id)'.state = "pending"]_vars

\* A second id has been issued after the job of the first was deleted.
C8_Witness ==
    \E j, k \in issued : j # k /\ ~HasJob(j) /\ HasJob(k) /\ jobs[k].state = "pending"

\* C9: no run of process_urls ends by raising.
C9_NeverRaises == \A j \in JobIds : task[j].pc # "raised"

\* The relative paths of the regular files under the output directory.
OutputFiles(w) ==
    { SubSeq(p, 2, Len(p)) : p \in { q \in disk[w] : Len(q) >= 2 /\ q[1] = "subs" } }

\* C10: for a completed job that has been packaged, the archive on disk
\* and the archive another GET /result returns both hold exactly the
\* relative paths of the files under subs/, and never the archive itself.
C10_ArchiveMirrorsOutput ==
    \A j \in DOMAIN jobs :
        LET w == jobs[j].workspace IN
        (jobs[j].state = "completed" /\ PathExists(w, ZipPath))
           => /\ zip[w] = OutputFiles(w)
              /\ result_response(j).code = 200
              /\ result_response(j).archive = zip[w]
              /\ ZipPath \notin zip[w]
              /\ \A e \in zip[w] : e[Len(e)] # "zip"

\* A packaged job whose output directory holds a caption file and a
\* transcript.
C10_Witness ==
    \E j \in DOMAIN jobs :
        LET w == jobs[j].workspace IN
        /\ jobs[j].state = "completed"
        /\ PathExists(w, ZipPath)
        /\ Cardinality(zip[w]) >= 2
        /\ <<"A", "srt">> \in zip[w]
        /\ <<"B", "txt">> \in zip[w]

\* The places of process_urls in program order: the task is scheduled, has
\* set running/0.1, waits for and runs the scrape stage, waits for and runs
\* the ASR-fallback stage, resolves, has returned.
Order == <<"none", "scheduled", "setup", "await_scrape", "run_batch",
           "await_fill", "fill_gaps_main", "resolve", "returned">>

Place(pc) == CHOOSE i \in 1..Len(Order) : Order[i] = pc

\* The checkpoint a registered job shows while its task stands at a place.
Checkpoint == [scheduled |-> 0, setup |-> 1, await_scrape |-> 3, run_batch |-> 3,
               await_fill |-> 6, fill_gaps_main |-> 6, resolve |-> 9]

Captions(w) == { p \in disk[w] : Len(p) = 3 /\ p[1] = "subs" /\ p[3] = "srt" }

\* C11: the task of a job moves through its places in program order (or
\* leaves through the exception handler); a registered job shows 0.1 after
\* the task has started, 0.3 from the creation of the workspace until the
\* scrape stage has ended, 0.6 until the ASR-fallback stage has ended, 0.9 at
\* the terminal resolution, and becomes completed from 0.9 only, with 1.0.
\* The workspace is created at 0.1, caption files are written by the scrape
\* stage only and transcripts by the ASR-fallback stage only, which starts
\* after the scrape stage has returned.
C11_StrictOrder ==
    [][\A j \in JobIds :
         LET pc == task[j].pc
             w == mkdtemp(j) IN
         /\ task'[j].pc # pc
               => \/ /\ pc \in { Order[i] : i \in 1..(Len(Order) - 1) }
                     /\ task'[j].pc \in {Order[Place(pc) + 1], "except"}
                  \/ pc = "except" /\ task'[j].pc \in {"returned", "raised"}
         /\ (HasJob(j)' /\ task'[j].pc \in DOMAIN Checkpoint)
               => /\ jobs'[j].progress = Checkpoint[task'[j].pc]
                  /\ jobs'[j].state = IF task'[j].pc = "scheduled"
                                      THEN "pending" ELSE "running"
         /\ (HasJob(j) /\ HasJob(j)' /\ jobs'[j].state = "completed"
             /\ jobs[j].state # "completed")
               => /\ pc = "resolve" /\ jobs[j].progress = 9
                  /\ jobs'[j].progress = 10
         /\ (disk[w] = {} /\ disk'[w] # {}) => pc = "setup"
         /\ ~(Captions(w)' \subseteq Captions(w)) => pc = "run_batch"
         /\ ~(Transcripts(w)' \subseteq Transcripts(w)) => pc = "fill_gaps_main"]_vars

\* A completed job whose workspace holds captions of the scrape stage and a
\* transcript of the ASR-fallback stage.
C11_Witness ==
    \E j \in DOMAIN jobs :
        /\ jobs[j].state = "completed" /\ jobs[j].progress = 10
        /\ task[j].pc = "returned"
        /\ Captions(mkdtemp(j)) # {}
        /\ TxtPath("B") \in disk[mkdtemp(j)]

\* C12: a failure on a single URL does not fail the job: no task is taken
\* to the exception handler by the error of one URL of the scrape batch, and
\* a job that went through both stages is failed only when its output area
\* holds no transcript.
C12_PerUrlFailureSoft ==
    \A j \in DOMAIN jobs :
        /\ task[j].exc # "DownloadError"
        /\ (Resolved(j) /\ jobs[j].state = "failed") => Transcripts(mkdtemp(j)) = {}

\* C13: a successful submit registers exactly one new id and leaves the
\* record of every job registered before as it was, whatever URLs it brings.
C13_SubmitFrame ==
    [][\A urls \in Submissions, job_id \in JobIds :
         (/\ submit_response(urls).code = 200
          /\ submit_response(urls).job_id = job_id
          /\ submit_urls(urls))
            => /\ job_id \notin DOMAIN jobs
               /\ DOMAIN jobs' = DOMAIN jobs \cup {job_id}
               /\ \A k \in DOMAIN jobs : jobs'[k] = jobs[k]]_vars

\* The URLs of a job that has already completed were submitted again.
C13_Witness ==
    \E j, k \in DOMAIN jobs :
        /\ j < k
        /\ jobs[k].urls = jobs[j].urls
        /\ jobs[j].state = "completed" /\ jobs[j].progress = 10
        /\ jobs[k].state = "pending" /\ jobs[k].created_at # jobs[j].created_at

\* The paths process_urls itself creates in a workspace.
SetupPaths == {<<>>, SubsDir, TmpDir, ReelsTxt}

\* C14: when the creation of the workspace raised (OSError), the task goes
\* to the exception handler and returns, the workspace never holds anything
\* a stage writes, no stage module was imported for it, and the registered
\* job is failed with progress 0.0 and the error text in its message.
C14_WorkspaceFailure ==
    \A j \in JobIds :
        task[j].exc = "OSError"
           => /\ task[j].pc \in {"except", "returned"}
              /\ disk[mkdtemp(j)] \subseteq SetupPaths
              /\ (\A k \in JobIds \ {j} : task[k].pc \in {"none", "scheduled"})
                    => modules = {}
              /\ (HasJob(j) /\ task[j].pc = "returned")
                    => /\ jobs[j].state = "failed"
                       /\ jobs[j].progress = 0
                       /\ jobs[j].message = [Msg("Error") EXCEPT !.err = "OSError"]

\* The URL list could not be written: the job is failed and its workspace
\* holds what had been created.
C14_Witness ==
    \E j \in DOMAIN jobs :
        /\ task[j].exc = "OSError" /\ task[j].pc = "returned"
        /\ jobs[j].state = "failed" /\ jobs[j].progress = 0
        /\ jobs[j].workspace = mkdtemp(j)
        /\ ReelsTxt \in disk[mkdtemp(j)]

\* C15: every failed job has progress 0.0.
C15_FailedProgressZero ==
    \A j \in DOMAIN jobs : jobs[j].state = "failed" => jobs[j].progress = 0

\* C16: in every state in which a request handler can run, the record of a
\* completed job (as GET /jobs returns it and as GET /status shows it) has
\* progress 1.0 and completed_at set, and the record of a pending or running
\* job has progress below 1.0 and no completed_at.
C16_NoPartialRecord ==
    loop = Idle
       => \A j \in DOMAIN jobs :
            LET shown == status_response(j) IN
            /\ jobs[j].state = "completed"
                  => /\ jobs[j].progress = 10 /\ jobs[j].completed_at # None
                     /\ shown.progress = 10 /\ shown.completed_at # None
            /\ jobs[j].state \in NonTerminal
                  => /\ jobs[j].progress < 10 /\ jobs[j].completed_at = None
                     /\ shown.progress < 10 /\ shown.completed_at = None

\* A handler can run while one job is completed and another is between its
\* stages.
C16_Witness ==
    /\ loop = Idle
    /\ \E j, k \in DOMAIN jobs :
        /\ jobs[j].state = "completed"
        /\ jobs[k].state = "running" /\ task[k].pc = "await_scrape"

\* C17: a registered job whose stages both returned and whose output area
\* holds a file is completed, with progress 1.0 and completed_at set.
C17_OutputMeansCompleted ==
    \A j \in DOMAIN jobs :
        (Resolved(j) /\ OutputFiles(mkdtemp(j)) # {})
           => /\ jobs[j].state = "completed"
              /\ jobs[j].progress = 10
              /\ jobs[j].completed_at # None

\* The task of job j is inside a stage function, between os.chdir(workspace)
\* and the `finally` that undoes it.
InStage(j) == task[j].pc \in {"run_batch", "fill_gaps_main"}

\* C18: while a stage of job j runs, the working directory is the workspace
\* of j (so reels.txt, subs/ and tmp/ are those of j); the step of the stage
\* changes the files of no other workspace and of no other directory, and
\* ends, returning or raising, with the working directory back at the
\* server's, where it is whenever no stage runs.  Outside the workspaces the
\* stage functions leave nothing but the directories their imports create.
C18_StageInOwnWorkspace ==
    [][/\ \A j \in JobIds :
            InStage(j)
               => /\ cwd = mkdtemp(j) /\ cwd = task[j].workspace
                  /\ \A d \in Dirs \ {mkdtemp(j)} : disk'[d] = disk[d]
                  /\ \A k \in JobIds \ {j} : reels'[k] = reels[k] /\ zip'[k] = zip[k]
                  /\ ~InStage(j)'
                  /\ cwd' = ServerDir
       /\ (\A j \in JobIds : ~InStage(j)) => cwd = ServerDir
       /\ \A p \in disk'[ServerDir] : IsDir(p)]_vars

\* The ASR-fallback stage of one job runs while another job, whose scrape
\* stage wrote other captions, waits for its own.
C18_Witness ==
    \E j, k \in JobIds :
        /\ j # k
        /\ task[j].pc = "fill_gaps_main" /\ cwd = mkdtemp(j)
        /\ task[k].pc = "await_fill" /\ Captions(mkdtemp(k)) # {}
        /\ Captions(mkdtemp(j)) # Captions(mkdtemp(k))

\* The files of the scratch area of workspace w.
Scratch(w) == rglob(disk[w], TmpDir)

\* C19: no file is left in the scratch area of any workspace once a call
\* of ensure_transcript, and so the ASR-fallback stage, has returned.
C19_ScratchEmpty == \A j \in JobIds : Scratch(mkdtemp(j)) = {}

\* The output area of workspace w holds a file for the URL: the captions
\* of the scrape stage or a transcript.
HasOutput(w, url) == SrtPath(url) \in disk[w] \/ TxtPath(Short(url)) \in disk[w]

\* C20: the ASR-fallback stage leaves alone every URL of reels.txt that
\* has a file in the output area when the stage starts: it writes no
\* transcript and downloads nothing for it.
C20_SkipsExisting ==
    [][\A j \in JobIds :
         task[j].pc = "fill_gaps_main"
            => \A i \in 1..Len(reels[cwd]) :
                 LET url == reels[cwd][i] IN
                 HasOutput(cwd, url)
                    => /\ TxtPath(Short(url)) \in disk'[cwd]
                            <=> TxtPath(Short(url)) \in disk[cwd]
                       /\ PartPath(Short(url)) \in disk'[cwd]
                            <=> PartPath(Short(url)) \in disk[cwd]]_vars

\* C21: under fair scheduling of the background tasks, every registered job
\* is eventually completed or failed, unless it is deleted first.
C21_EventuallyTerminal ==
    \A j \in JobIds :
        HasJob(j) ~> (~HasJob(j) \/ jobs[j].state \in Terminal)

\* Two jobs have run to their ends, one completed and one failed for want of
\* transcripts, and both tasks have returned.
C21_Witness ==
    \E j, k \in DOMAIN jobs :
        /\ loop = Idle
        /\ task[j].pc = "returned" /\ task[k].pc = "returned"
        /\ jobs[j].state = "completed"
        /\ jobs[k].state = "failed"
        /\ jobs[k].message = Msg("No transcripts were generated")

\* The id was issued and the registry no longer holds it: the job was deleted.
Deleted(j) == j \in issued /\ ~HasJob(j)

\* C22: once a job is deleted, no step (of its pipeline or of anything
\* else) registers its id again or creates anything under its workspace:
\* status, result and delete answer 404 from then on and the workspace
\* stays absent.
C22_DeletedStaysDeleted ==
    [][\A j \in JobIds :
         Deleted(j)
            => /\ Deleted(j)'
               /\ disk[mkdtemp(j)] = {} /\ disk'[mkdtemp(j)] = {}
               /\ status_response(j)'.code = 404
               /\ result_response(j)'.code = 404
               /\ delete_response(j)'.code = 404]_vars

\* A job was deleted while its pipeline waited for the scrape stage, and the
\* pipeline has since run to its end.
C22_Witness ==
    \E j \in JobIds :
        /\ Deleted(j)
        /\ task[j].pc = "raised" /\ task[j].exc = "FileNotFoundError"
        /\ disk[mkdtemp(j)] = {}
        /\ status_response(j).code = 404
====
